---- MODULE Spec2Model ----
(***************************************************************************)
(* LENV: project-scoped Linux environments on top of WSL.                  *)
(*                                                                         *)
(* The model follows lenv/core.py (class LENV) and lenv/cli.py (main).     *)
(* One CLI process runs at a time (the program is single-threaded and      *)
(* sequential), so every command is one action: the LENV constructor, the  *)
(* handler, and main's exception handling that turns the handler's outcome *)
(* into an exit code.  The ended process stays visible in `last` until the *)
(* shell is back at its prompt.  What the external tools (wsl, powershell, *)
(* the HTTP server, the user at the keyboard) answer is not decided by the *)
(* program: each answer is an input of the action, drawn with \E.          *)
(***************************************************************************)
EXTENDS Integers, Sequences, FiniteSets, TLC

VARIABLES
    config,       \* project dir -> content of <project>/.lenv/config.json
    configDir,    \* project dir -> whether <project>/.lenv exists
    cache,        \* archive filename -> state of <home>/.lenv/rootfs/<filename>
    registry,     \* WSL: instance name -> archive it was imported from
    installDirs,  \* instance names with a directory <home>/.lenv/instances/<name>
    clock,        \* what datetime.utcnow() returns, as a counter
    last,         \* the CLI process that just ended: command, calls made, exit code,
                  \* and the kind of config file it found (prior)
    mgr           \* two LENV objects under construction (instance-name study)

vars == <<config, configDir, cache, registry, installDirs, clock, last, mgr>>

(***************************************************************************)
(* Bounds.                                                                 *)
(***************************************************************************)
\* Number of completed config writes (inits) in one behaviour.
MaxClock == 2

(***************************************************************************)
(* Paths.  A path is the sequence of its components; an absolute path      *)
(* starts with the drive.  The empty sequence stands for project_path      *)
(* None (or ""), which `project_path or os.getcwd()` replaces by the cwd.  *)
(***************************************************************************)
Drive == "C:"

Numbers == {"1", "2", "47204", "67439"}

Bases == {"app", "api"}

\* Workspace directories C:\work\<n> and project directories C:\work\<n>\<b>.
WorkDirs == {<<Drive, "work", n>> : n \in Numbers}

ProjectDirs == {<<Drive, "work", n, b>> : n \in Numbers, b \in Bases}

Dirs == WorkDirs \cup ProjectDirs

NoArg == <<>>

IsAbs(path) == Len(path) > 0 /\ path[1] = Drive

\* Path(project_path).absolute(): an absolute path is kept, a relative one is
\* joined to the current directory (no normalisation, no symlink resolution).
Absolute(path, cwd) == IF IsAbs(path) THEN path ELSE cwd \o path

\* os.path.basename of a path without trailing separator: its last component.
Basename(path) == path[Len(path)]

\* hashlib.md5(str(abs_path).encode()).hexdigest()[:8] of the directories of
\* the model, e.g. md5("C:\work\47204\app") = 864d7c11....
Md5Hex8 ==
    (<<"C:", "work", "1">> :> "6b157657") @@
    (<<"C:", "work", "1", "app">> :> "9e810b96") @@
    (<<"C:", "work", "1", "api">> :> "7944b4ce") @@
    (<<"C:", "work", "2">> :> "bd97050e") @@
    (<<"C:", "work", "2", "app">> :> "16fb4eb2") @@
    (<<"C:", "work", "2", "api">> :> "7d0408da") @@
    (<<"C:", "work", "47204">> :> "b6c16b8a") @@
    (<<"C:", "work", "47204", "app">> :> "864d7c11") @@
    (<<"C:", "work", "47204", "api">> :> "f2a2dd20") @@
    (<<"C:", "work", "67439">> :> "aa05f96d") @@
    (<<"C:", "work", "67439", "app">> :> "864d7c11") @@
    (<<"C:", "work", "67439", "api">> :> "ddee806d")

\* Faulty variant of InstanceName: the name is built from the directory name alone.
InstanceNameNoHash(project_path, cwd) == "lenv-" \o Basename(project_path)

\* f"lenv-{self.project_name}-{path_hash}"
InstanceName(project_path, cwd) ==
    "lenv-" \o Basename(project_path) \o "-" \o Md5Hex8[Absolute(project_path, cwd)]

\* LENV.__init__: the fields the constructor computes.  (It also creates the
\* directories <home>/.lenv and <home>/.lenv/rootfs when they are missing; the
\* cache is modelled by its entries, which that does not touch.)
LenvNew(arg, cwd) ==
    LET project_path == IF arg = NoArg THEN cwd ELSE arg
    IN  [project_path  |-> project_path,
         project_name  |-> Basename(project_path),
         abs_path      |-> Absolute(project_path, cwd),
         instance_name |-> InstanceName(project_path, cwd)]

(***************************************************************************)
(* The projects of the lifecycle model: two directories with the same      *)
(* basename, each the cwd of the CLI processes started in it.              *)
(***************************************************************************)
Projects == {<<Drive, "work", "1", "app">>, <<Drive, "work", "2", "app">>}

Names == {LenvNew(NoArg, p).instance_name : p \in Projects}

\* argparse: choices=['alpine', 'ubuntu']
Distros == {"alpine", "ubuntu"}

\* The default value of the `distro` parameter of _download_rootfs,
\* _create_wsl_instance and _configure_instance.
DefaultDistro == "alpine"

\* rootfs_urls: distro -> archive filename (the cache key).
RootfsFile ==
    ("alpine" :> "alpine-minirootfs-3.19.0-x86_64.tar.gz") @@
    ("ubuntu" :> "ubuntu-22.04-minimal-cloudimg-amd64-root.tar.xz")

Files == {RootfsFile[d] : d \in Distros}

\* The package-manager command list of _configure_instance, per distro.
ConfigCommands ==
    ("alpine" :> <<"apk update",
                   "apk add python3 py3-pip gcc python3-dev musl-dev linux-headers",
                   "ln -sf /usr/bin/python3 /usr/bin/python",
                   "python -m pip install --upgrade pip">>) @@
    ("ubuntu" :> <<"apt-get update",
                   "apt-get install -y python3 python3-pip python3-dev build-essential",
                   "ln -sf /usr/bin/python3 /usr/bin/python",
                   "python -m pip install --upgrade pip">>)

NoConfig == [kind |-> "absent"]

\* A config file that exists but holds no JSON document.
Corrupt == [kind |-> "corrupt"]

ConfigRecord(name, distro, at) ==
    [kind |-> "record", instance_name |-> name, distro |-> distro, created_at |-> at]

NoInst == "unregistered"

(***************************************************************************)
(* Control flow.  A frame is the file system and WSL state as the running  *)
(* process has changed it so far, plus what the process did.  A function   *)
(* ends by returning ("ret"), by sys.exit(code) ("sysexit"), by raising an *)
(* Exception ("exc") or by raising KeyboardInterrupt ("kbd").              *)
(***************************************************************************)
Ret(val, f) == [ctl |-> "ret", code |-> 0, val |-> val, f |-> f]

SysExit(code, f) == [ctl |-> "sysexit", code |-> code, val |-> "none", f |-> f]

Raise(kind, f) == [ctl |-> kind, code |-> 1, val |-> "none", f |-> f]

\* subprocess.run(argv) / urlretrieve(url): the call is made.
Call(f, argv) == [f EXCEPT !.calls = Append(@, argv)]

Event(f, e) == [f EXCEPT !.events = @ \cup {e}]

StartFrame ==
    [config |-> config, configDir |-> configDir, cache |-> cache,
     registry |-> registry, installDirs |-> installDirs,
     calls |-> <<>>, events |-> {}, warned |-> {}, created |-> FALSE,
     written |-> FALSE, out |-> "none"]

(***************************************************************************)
(* LENV._check_wsl2_installed: `wsl --status` with a 5 s timeout.          *)
(* FileNotFoundError and TimeoutExpired are caught and mean "no".          *)
(***************************************************************************)
CheckWsl2Installed(f, o) ==
    LET f1 == Call(f, <<"wsl", "--status">>)
    IN  CASE o.status = "ok"       -> Ret("true", f1)
          [] o.status = "fail"     -> Ret("false", f1)
          [] o.status = "notfound" -> Ret("false", f1)
          [] o.status = "timeout"  -> Ret("false", Event(f1, "timeout"))
          [] o.status = "int"      -> Raise("kbd", Event(f1, "interrupt"))

(***************************************************************************)
(* LENV._check_wsl2_version: `wsl --status` again, no timeout; a bare      *)
(* `except:` turns every exception, KeyboardInterrupt included, into "no". *)
(***************************************************************************)
CheckWsl2Version(f, o) ==
    LET f1 == Call(f, <<"wsl", "--status">>)
    IN  CASE o.version = "v2"  -> Ret("true", f1)
          [] o.version = "v1"  -> Ret("false", f1)
          [] o.version = "int" -> Ret("false", Event(f1, "interrupt"))

\* Faulty variant of InstallWsl2: declining the installation returns to the caller.
InstallWsl2Returns(f, o) ==
    LET f0 == Event(f, "not_installed")
    IN  CASE o.answer = "int" -> Raise("kbd", Event(f0, "interrupt"))
          [] o.answer = "n"   -> Ret("none", f0)
          [] o.answer = "y"   ->
                LET f1 == Call(f0, <<"powershell", "Start-Process", "wsl", "--install">>)
                IN  CASE o.elevate = "ok"  -> SysExit(0, f1)
                      [] o.elevate = "exc" -> SysExit(1, f1)
                      [] o.elevate = "int" -> Raise("kbd", Event(f1, "interrupt"))

(***************************************************************************)
(* LENV._install_wsl2: asks the user; on "y" starts an elevated            *)
(* `wsl --install` and exits 0 (exit 1 if starting it raised), otherwise   *)
(* exits 1.  It never returns.                                             *)
(***************************************************************************)
InstallWsl2(f, o) ==
    LET f0 == Event(f, "not_installed")
    IN  CASE o.answer = "int" -> Raise("kbd", Event(f0, "interrupt"))
          [] o.answer = "n"   -> SysExit(1, f0)
          [] o.answer = "y"   ->
                LET f1 == Call(f0, <<"powershell", "Start-Process", "wsl", "--install">>)
                IN  CASE o.elevate = "ok"  -> SysExit(0, f1)
                      [] o.elevate = "exc" -> SysExit(1, f1)
                      [] o.elevate = "int" -> Raise("kbd", Event(f1, "interrupt"))

\* Faulty variant of DownloadRootfs: the cache is not consulted.
DownloadRootfsAlways(f, distro, o) ==
    LET file == RootfsFile[distro]
        f1   == Call(f, <<"GET", file>>)
    IN  CASE o.download = "ok" ->
                Ret(file, [f1 EXCEPT !.cache[file] = "complete"])
          [] o.download = "fail" ->
                SysExit(1, Event(f1, "download_failed"))
          [] o.download = "partial" ->
                SysExit(1, Event([f1 EXCEPT !.cache[file] = "partial"], "download_failed"))
          [] o.download = "int" ->
                Raise("kbd", Event([f1 EXCEPT !.cache[file] = "partial"], "interrupt"))

(***************************************************************************)
(* LENV._download_rootfs: reuse <cache>/<filename> when it exists, else    *)
(* urlretrieve into that very path.  A transfer that breaks after the file *)
(* was opened leaves a partial file there.  Any Exception ends in          *)
(* sys.exit(1); KeyboardInterrupt is no Exception and propagates.          *)
(***************************************************************************)
DownloadRootfs(f, distro, o) ==
    IF distro \notin DOMAIN RootfsFile
    THEN Raise("exc", f)
    ELSE LET file == RootfsFile[distro]
         IN  IF f.cache[file] # "none"
             THEN Ret(file, f)
             ELSE LET f1 == Call(f, <<"GET", file>>)
                  IN  CASE o.download = "ok" ->
                              Ret(file, [f1 EXCEPT !.cache[file] = "complete"])
                        [] o.download = "fail" ->
                              SysExit(1, Event(f1, "download_failed"))
                        [] o.download = "partial" ->
                              SysExit(1, Event([f1 EXCEPT !.cache[file] = "partial"],
                                               "download_failed"))
                        [] o.download = "int" ->
                              Raise("kbd", Event([f1 EXCEPT !.cache[file] = "partial"],
                                                 "interrupt"))

(***************************************************************************)
(* The loop of LENV._configure_instance: command i of the list is run      *)
(* inside the instance; a non-zero exit code prints a warning.             *)
(***************************************************************************)
RECURSIVE RunCommands(_, _, _, _, _)
RunCommands(f, name, commands, outcomes, i) ==
    IF i > Len(commands)
    THEN Ret("none", f)
    ELSE LET f1  == Call(f, <<"wsl", "-d", name, "--", "sh", "-c", commands[i]>>)
             res == IF i <= Len(outcomes) THEN outcomes[i] ELSE "ok"
         IN  CASE res = "int"  -> Raise("kbd", Event(f1, "interrupt"))
               [] res = "fail" ->
                     RunCommands([f1 EXCEPT !.warned = @ \cup {i}],
                                 name, commands, outcomes, i + 1)
               [] res = "ok"   -> RunCommands(f1, name, commands, outcomes, i + 1)

\* Faulty variant of ConfigureInstance: the first failing command ends the sequence.
RECURSIVE RunCommandsAbort(_, _, _, _, _)
RunCommandsAbort(f, name, commands, outcomes, i) ==
    IF i > Len(commands)
    THEN Ret("none", f)
    ELSE LET f1  == Call(f, <<"wsl", "-d", name, "--", "sh", "-c", commands[i]>>)
             res == IF i <= Len(outcomes) THEN outcomes[i] ELSE "ok"
         IN  CASE res = "int"  -> Raise("kbd", Event(f1, "interrupt"))
               [] res = "fail" -> Ret("none", [f1 EXCEPT !.warned = @ \cup {i}])
               [] res = "ok"   -> RunCommandsAbort(f1, name, commands, outcomes, i + 1)

ConfigureInstanceAbort(f, self, distro, o) ==
    IF distro \in DOMAIN ConfigCommands
    THEN RunCommandsAbort(f, self.instance_name, ConfigCommands[distro], o.cmds, 1)
    ELSE Ret("none", f)

\* LENV._configure_instance(distro)
ConfigureInstance(f, self, distro, o) ==
    IF distro \in DOMAIN ConfigCommands
    THEN RunCommands(f, self.instance_name, ConfigCommands[distro], o.cmds, 1)
    ELSE Ret("none", f)

(***************************************************************************)
(* `wsl --import <name> <install_path> <rootfs>`.  WSL refuses a name that *)
(* is registered ("already exists" on stderr); otherwise the import either *)
(* registers the instance or fails for another reason.                     *)
(***************************************************************************)
ImportInstance(f, name, rootfs, o) ==
    LET f1 == Call(f, <<"wsl", "--import", name, rootfs>>)
    IN  CASE o.import = "int"  -> Raise("kbd", Event(f1, "interrupt"))
          [] o.import = "fail" -> Raise("exc", Event(f1, "import_failed"))
          [] o.import = "ok"   ->
                IF f1.registry[name] # NoInst
                THEN Ret("exists", f1)
                ELSE Ret("imported", [f1 EXCEPT !.registry[name] = rootfs])

(***************************************************************************)
(* LENV._create_wsl_instance(distro).  _configure_instance is called       *)
(* without argument, that is with its default.                             *)
(***************************************************************************)
CreateWslInstance(f, self, distro, o) ==
    LET r1 == CheckWsl2Installed(f, o)
    IN  IF r1.ctl # "ret" THEN r1
        ELSE IF r1.val = "false"
        THEN LET r2 == InstallWsl2(r1.f, o)
             IN  IF r2.ctl # "ret" THEN r2
                 ELSE Ret("none", r2.f)
        ELSE
        LET r3 == CheckWsl2Version(r1.f, o)
        IN  IF r3.ctl # "ret" THEN r3
            ELSE
            LET r4 == IF r3.val = "true" THEN Ret("none", r3.f)
                      ELSE LET f4 == Call(r3.f, <<"wsl", "--set-default-version", "2">>)
                           IN  IF o.setdef = "int"
                               THEN Raise("kbd", Event(f4, "interrupt"))
                               ELSE Ret("none", f4)
            IN  IF r4.ctl # "ret" THEN r4
                ELSE
                LET r5 == DownloadRootfs(r4.f, distro, o)
                IN  IF r5.ctl # "ret" THEN r5
                    ELSE
                    LET f6 == [r5.f EXCEPT !.installDirs = @ \cup {self.instance_name}]
                        r7 == ImportInstance(f6, self.instance_name, r5.val, o)
                    IN  IF r7.ctl # "ret" THEN r7
                        ELSE
                        LET r8 == ConfigureInstance(r7.f, self, DefaultDistro, o)
                        IN  IF r8.ctl # "ret" THEN r8
                            ELSE Ret("none", [r8.f EXCEPT !.created = TRUE])

(***************************************************************************)
(* The end of LENV.init: open(config_file, 'w') truncates the file, then   *)
(* json.dump writes the record; an interrupt in between leaves a file      *)
(* without a JSON document.                                                *)
(***************************************************************************)
WriteConfig(f, self, distro, o) ==
    IF o.write = "int"
    THEN Raise("kbd", Event([f EXCEPT !.config[self.project_path] = Corrupt],
                            "interrupt"))
    ELSE Ret("none", [f EXCEPT !.config[self.project_path] =
                                   ConfigRecord(self.instance_name, distro, clock + 1),
                               !.written = TRUE])

\* Faulty variant of LenvInit: a failed creation removes the project's .lenv directory.
LenvInitCleanup(f, self, distro, o) ==
    LET f1 == [f EXCEPT !.configDir[self.project_path] = TRUE]
        r2 == CreateWslInstance(f1, self, DefaultDistro, o)
    IN  IF r2.ctl # "ret"
        THEN [r2 EXCEPT !.f.configDir[self.project_path] = FALSE,
                        !.f.config[self.project_path] = NoConfig]
        ELSE WriteConfig(r2.f, self, distro, o)

(***************************************************************************)
(* LENV.init(distro), distro given by the CLI (never None).                *)
(* _create_wsl_instance is called without argument: with its default.      *)
(***************************************************************************)
LenvInit(f, self, distro, o) ==
    LET f1 == [f EXCEPT !.configDir[self.project_path] = TRUE]
        r2 == CreateWslInstance(f1, self, DefaultDistro, o)
    IN  IF r2.ctl # "ret" THEN r2
        ELSE WriteConfig(r2.f, self, distro, o)

DriveLower == ("C:" :> "c")

\* LENV._windows_to_wsl_path: C:\a\b -> /mnt/c/a/b
WindowsToWslPath(path, cwd) ==
    LET abs == Absolute(path, cwd)
    IN  <<"mnt", DriveLower[abs[1]]>> \o Tail(abs)

ConfigFileExists(f, self) == f.config[self.project_path] # NoConfig

\* LENV.activate
LenvActivate(f, self, o) ==
    IF ~ConfigFileExists(f, self)
    THEN Ret("none", f)
    ELSE LET f1 == Call(f, <<"wsl", "-d", self.instance_name, "--cd",
                            WindowsToWslPath(self.project_path, self.project_path),
                            "--", "/bin/sh">>)
         IN  IF o.shell = "int"
             THEN Raise("kbd", Event(f1, "interrupt"))
             ELSE Ret("none", f1)

\* LENV.run(command): no check of the config file.
LenvRun(f, self, command, o) ==
    LET f1 == Call(f, <<"wsl", "-d", self.instance_name, "--cd",
                        WindowsToWslPath(self.project_path, self.project_path),
                        "--", "sh", "-c", command>>)
    IN  IF o.shell = "int"
        THEN Raise("kbd", Event(f1, "interrupt"))
        ELSE Ret(o.shell, f1)

\* Faulty variant of DestroyNoConfig: the directory is removed before the check.
DestroyNoConfigRmtree(f, self) ==
    Ret("none", [f EXCEPT !.configDir[self.project_path] = FALSE])

\* LENV.destroy when the config file does not exist: a message, nothing else.
DestroyNoConfig(f, self) == Ret("none", f)

\* The name destroy passes to `wsl --unregister`; the name read from the
\* record is passed to `wsl --terminate` only.
UnregisterName(self, recorded) == self.instance_name

(***************************************************************************)
(* LENV.destroy.  The terminate call has a 10 s timeout, the unregister    *)
(* call a 20 s timeout; TimeoutExpired is not caught.  Exit codes are not  *)
(* looked at.                                                              *)
(***************************************************************************)
LenvDestroy(f, self, o) ==
    IF ~ConfigFileExists(f, self)
    THEN DestroyNoConfig(f, self)
    ELSE IF f.config[self.project_path] = Corrupt
    THEN Raise("exc", Event(f, "bad_config"))
    ELSE
    LET recorded == f.config[self.project_path].instance_name
        f1 == Call(f, <<"wsl", "--terminate", recorded>>)
    IN  CASE o.terminate = "int"     -> Raise("kbd", Event(f1, "interrupt"))
          [] o.terminate = "timeout" -> Raise("exc", Event(f1, "timeout"))
          [] OTHER ->
             IF o.sleep = "int" THEN Raise("kbd", Event(f1, "interrupt"))
             ELSE
             LET target == UnregisterName(self, recorded)
                 f2 == Call(f1, <<"wsl", "--unregister", target>>)
             IN  CASE o.unregister = "int"     -> Raise("kbd", Event(f2, "interrupt"))
                   [] o.unregister = "timeout" -> Raise("exc", Event(f2, "timeout"))
                   [] OTHER ->
                      LET f3 == IF o.unregister = "ok" /\ target \in DOMAIN f2.registry
                                THEN [f2 EXCEPT !.registry[target] = NoInst]
                                ELSE f2
                      IN  Ret("none", [f3 EXCEPT !.configDir[self.project_path] = FALSE,
                                                 !.config[self.project_path] = NoConfig])

\* LENV.status: what it prints about the project and the instance.
LenvStatus(f, self, o) ==
    IF ~ConfigFileExists(f, self)
    THEN Ret("none", [f EXCEPT !.out = "Not initialized"])
    ELSE LET f1 == Call(f, <<"wsl", "--list", "--quiet">>)
         IN  IF o.list = "int" THEN Raise("kbd", Event(f1, "interrupt"))
             ELSE IF f1.registry[self.instance_name] = NoInst
             THEN Ret("none", [f1 EXCEPT !.out = "Initialized, instance not found"])
             ELSE LET f2 == Call(f1, <<"wsl", "--list", "--running">>)
                  IN  CASE o.running = "int" -> Raise("kbd", Event(f2, "interrupt"))
                        [] o.running = "yes" ->
                              Ret("none", [f2 EXCEPT !.out = "Initialized, running"])
                        [] o.running = "no" ->
                              Ret("none", [f2 EXCEPT !.out = "Initialized, stopped"])

(***************************************************************************)
(* cli.main: env = LENV() in the current directory, the dispatch, and the  *)
(* exit code: 0 when the handler returns, the code of sys.exit, 1 for      *)
(* KeyboardInterrupt and for any Exception.                                *)
(***************************************************************************)
ExitCode(r) ==
    CASE r.ctl = "ret"     -> 0
      [] r.ctl = "sysexit" -> r.code
      [] r.ctl = "kbd"     -> 1
      [] r.ctl = "exc"     -> 1

Main(command, cwd, arg, o) ==
    LET env == LenvNew(NoArg, cwd)
    IN  CASE command = "init"     -> LenvInit(StartFrame, env, arg, o)
          [] command = "activate" -> LenvActivate(StartFrame, env, o)
          [] command = "run"      -> LenvRun(StartFrame, env, arg, o)
          [] command = "destroy"  -> LenvDestroy(StartFrame, env, o)
          [] command = "status"   -> LenvStatus(StartFrame, env, o)

(***************************************************************************)
(* What the environment may answer to one `lenv init`: one field per       *)
(* external interaction, "-" where the run does not get that far, "int"    *)
(* where the user presses Ctrl-C during it.                                *)
(*   status   exit of the first `wsl --status` (5 s timeout)               *)
(*   answer   the user's reply to the installation prompt                  *)
(*   elevate  the start of the elevated powershell                         *)
(*   version  whether the second `wsl --status` reports WSL 2              *)
(*   setdef   `wsl --set-default-version 2`                                *)
(*   download the HTTP transfer, when one takes place (with the archive    *)
(*            cached there is none, and the run goes on)                   *)
(*   import   `wsl --import`                                               *)
(*   cmds     the exit of each package-manager command that is run         *)
(*   write    the writing of config.json                                   *)
(***************************************************************************)
NumCommands == Len(ConfigCommands[DefaultDistro])

CmdScriptsFull == [1..NumCommands -> {"ok", "fail"}]

CmdScriptsInterrupted ==
    {Append(s, "int") : s \in UNION {[1..n -> {"ok", "fail"}] : n \in 0..(NumCommands - 1)}}

InitOutcome(st, an, el, ve, sd, dl, im, cm, wr) ==
    [status |-> st, answer |-> an, elevate |-> el, version |-> ve, setdef |-> sd,
     download |-> dl, import |-> im, cmds |-> cm, write |-> wr]

InitOutcomes ==
    LET notInstalled ==
            {InitOutcome(st, ae[1], ae[2], "-", "-", "-", "-", <<>>, "-") :
                st \in {"fail", "timeout", "notfound"},
                ae \in {<<"n", "-">>, <<"int", "-">>,
                        <<"y", "ok">>, <<"y", "exc">>, <<"y", "int">>}}
        versions == {<<"v2", "-">>, <<"v1", "done">>, <<"int", "done">>}
        tails ==
            {<<dl, "ok", [i \in 1..NumCommands |-> "ok"], "ok">> :
                dl \in {"fail", "partial", "int"}}
            \cup {<<"ok", im, <<>>, "-">> : im \in {"fail", "int"}}
            \cup {<<"ok", "ok", cm, "-">> : cm \in CmdScriptsInterrupted}
            \cup {<<"ok", "ok", cm, wr>> : cm \in CmdScriptsFull, wr \in {"ok", "int"}}
    IN  {InitOutcome("int", "-", "-", "-", "-", "-", "-", <<>>, "-")}
        \cup notInstalled
        \cup {InitOutcome("ok", "-", "-", ve, "int", "-", "-", <<>>, "-") :
                ve \in {"v1", "int"}}
        \cup {InitOutcome("ok", "-", "-", v[1], v[2], t[1], t[2], t[3], t[4]) :
                v \in versions, t \in tails}

\* terminate (10 s timeout), time.sleep(2), unregister (20 s timeout)
DestroyOutcomes ==
    {[terminate |-> t, sleep |-> "-", unregister |-> "-"] : t \in {"timeout", "int"}}
    \cup {[terminate |-> t, sleep |-> "int", unregister |-> "-"] : t \in {"ok", "fail"}}
    \cup {[terminate |-> t, sleep |-> "done", unregister |-> u] :
            t \in {"ok", "fail"}, u \in {"ok", "fail", "timeout", "int"}}

\* The shell's exit code, or Ctrl-C while `wsl` runs.
ShellOutcomes == {[shell |-> x] : x \in {"0", "1", "int"}}

StatusOutcomes ==
    {[list |-> "int", running |-> "-"]}
    \cup {[list |-> "ok", running |-> x] : x \in {"yes", "no", "int"}}

\* `lenv run <cmd...>`: the words joined by blanks.
Commands == {"make test"}

(***************************************************************************)
(* The state after construction: nothing initialised, nothing cached,      *)
(* nothing registered.                                                     *)
(***************************************************************************)
NoMgr == [kind |-> "none"]

Slots == {"a", "b"}

NoRun ==
    [command |-> "none", cwd |-> <<>>, arg |-> "none", calls |-> <<>>, events |-> {},
     warned |-> {}, created |-> FALSE, written |-> FALSE, out |-> "none",
     prior |-> "none", ctl |-> "ret", exit |-> 0]

Init ==
    /\ config = [p \in Projects |-> NoConfig]
    /\ configDir = [p \in Projects |-> FALSE]
    /\ cache = [file \in Files |-> "none"]
    /\ registry = [n \in Names |-> NoInst]
    /\ installDirs = {}
    /\ clock = 0
    /\ last = NoRun
    /\ mgr = [s \in Slots |-> NoMgr]

\* A process is started from the prompt and runs to its end: what it changed
\* stays, what it did is the last run.
Finish(command, cwd, arg, r) ==
    /\ last = NoRun
    /\ config' = r.f.config
    /\ configDir' = r.f.configDir
    /\ cache' = r.f.cache
    /\ registry' = r.f.registry
    /\ installDirs' = r.f.installDirs
    /\ clock' = IF r.f.written THEN clock + 1 ELSE clock
    /\ last' = [command |-> command, cwd |-> cwd, arg |-> arg, calls |-> r.f.calls,
                events |-> r.f.events, warned |-> r.f.warned, created |-> r.f.created,
                written |-> r.f.written, out |-> r.f.out,
                prior |-> config[cwd].kind, ctl |-> r.ctl, exit |-> ExitCode(r)]
    /\ UNCHANGED mgr

\* lenv init [--distro d], in project directory p
CliInit ==
    \E p \in Projects, d \in Distros, o \in InitOutcomes :
        LET r == Main("init", p, d, o)
        IN  /\ last = NoRun
            /\ r.f.written => clock < MaxClock
            /\ Finish("init", p, d, r)

\* lenv activate
CliActivate ==
    \E p \in Projects, o \in ShellOutcomes :
        Finish("activate", p, "none", Main("activate", p, "none", o))

\* lenv run <cmd...>
CliRun ==
    \E p \in Projects, c \in Commands, o \in ShellOutcomes :
        Finish("run", p, c, Main("run", p, c, o))

\* lenv destroy
CliDestroy ==
    \E p \in Projects, o \in DestroyOutcomes :
        Finish("destroy", p, "none", Main("destroy", p, "none", o))

\* lenv status
CliStatus ==
    \E p \in Projects, o \in StatusOutcomes :
        Finish("status", p, "none", Main("status", p, "none", o))

\* The shell is back at its prompt: the ended process is gone.
ShellPrompt ==
    /\ last # NoRun
    /\ last' = NoRun
    /\ UNCHANGED <<config, configDir, cache, registry, installDirs, clock, mgr>>

Next == CliInit \/ CliActivate \/ CliRun \/ CliDestroy \/ CliStatus \/ ShellPrompt

Spec == Init /\ [][Next]_vars

(***************************************************************************)
(* The instance name as a function: LENV(project_path) is constructed in   *)
(* a current directory, for every project_path (absent, absolute or        *)
(* relative) and current directory of the model.                           *)
(***************************************************************************)
RelArgs == {<<b>> : b \in Bases}

Construct(s) ==
    \E arg \in {NoArg} \cup ProjectDirs \cup RelArgs, cwd \in Dirs :
        /\ Absolute(IF arg = NoArg THEN cwd ELSE arg, cwd) \in DOMAIN Md5Hex8
        /\ mgr' = [mgr EXCEPT ![s] = [kind |-> "lenv", env |-> LenvNew(arg, cwd)]]
        /\ UNCHANGED <<config, configDir, cache, registry, installDirs, clock, last>>

NextName == \E s \in Slots : Construct(s)

SpecName == Init /\ [][NextName]_vars

(***************************************************************************)
(* Properties.                                                             *)
(***************************************************************************)
IsGet(c) == c[1] = "GET"

IsImport(c) == c[1] = "wsl" /\ c[2] = "--import"

\* `wsl -d <name> -- sh -c <cmd>` (the shell of activate and run has --cd).
IsExec(c) == c[1] = "wsl" /\ c[2] = "-d" /\ c[4] = "--"

Gets(calls) == SelectSeq(calls, IsGet)

Imports(calls) == SelectSeq(calls, IsImport)

\* The commands run inside the instance, in the order of their calls.
ExecCommands(calls) ==
    LET execs == SelectSeq(calls, IsExec)
    IN  [i \in 1..Len(execs) |-> execs[i][7]]

NameOf(p) == LenvNew(NoArg, p).instance_name

\* C1: a destroy that finds no config file makes no external call and leaves
\* the config directory, the rootfs cache, the registered instances and the
\* instance directories as they were, every time it is run.
C1_DestroyWithoutConfig ==
    [][(last'.command = "destroy" /\ config[last'.cwd] = NoConfig)
         => /\ last'.calls = <<>>
            /\ config' = config
            /\ configDir' = configDir
            /\ cache' = cache
            /\ registry' = registry
            /\ installDirs' = installDirs]_vars

\* C1 witness: destroy ended without a call in a project that has a .lenv
\* directory but no config file, while an instance is registered.
C1_Witness ==
    /\ last.command = "destroy"
    /\ last.prior = "absent"
    /\ last.calls = <<>>
    /\ configDir[last.cwd]
    /\ registry[NameOf(last.cwd)] # NoInst

\* C2: after a completed init(d) the record names d, and the archive that was
\* downloaded and imported and the commands that were run are those of d.
C2_InitUsesChosenDistro ==
    (last.command = "init" /\ last.written)
        => /\ config[last.cwd].distro = last.arg
           /\ \A i \in DOMAIN last.calls :
                 /\ IsGet(last.calls[i]) => last.calls[i][2] = RootfsFile[last.arg]
                 /\ IsImport(last.calls[i]) => last.calls[i][4] = RootfsFile[last.arg]
           /\ ExecCommands(last.calls) = ConfigCommands[last.arg]

\* C3 as claimed: once the record exists, no operation changes it until
\* destroy deletes it.
C3_RecordNeverUpdated ==
    [][\A p \in Projects :
          config[p].kind = "record"
            => \/ config'[p] = config[p]
               \/ last'.command = "destroy" /\ config'[p] = NoConfig]_vars

\* C3 amended: an existing record is left alone by activate, run and status
\* and by every process of another project; destroy in its project deletes
\* it; init in its project writes it again (same instance name; distro and
\* created_at are those of the new init), or leaves the file without a JSON
\* document when it is interrupted while writing.
C3_RecordChangedOnlyByInitAndDestroy ==
    [][\A p \in Projects :
          config[p].kind = "record"
            => \/ config'[p] = config[p]
               \/ /\ last'.command = "destroy"
                  /\ last'.cwd = p
                  /\ config'[p] = NoConfig
               \/ /\ last'.command = "init"
                  /\ last'.cwd = p
                  /\ last'.created
                  /\ \/ config'[p] = Corrupt
                     \/ /\ config'[p].kind = "record"
                        /\ config'[p].instance_name = config[p].instance_name
                        /\ config'[p].distro = last'.arg
                        /\ config'[p].created_at > config[p].created_at]_vars

\* C3 witness: an init that found a record has written a record.
C3_Witness ==
    /\ last.command = "init"
    /\ last.prior = "record"
    /\ last.written
    /\ config[last.cwd].kind = "record"
    /\ config[last.cwd].created_at > 1

\* C4: a destroy that found a record and was not interrupted by the user ends
\* with the config directory and the config file gone, whatever the
\* terminate and unregister calls did.
C4_DestroyDeletesConfig ==
    (last.command = "destroy" /\ last.prior = "record" /\ "interrupt" \notin last.events)
        => /\ config[last.cwd] = NoConfig
           /\ ~configDir[last.cwd]

\* C5: a destroy that found a record and was not interrupted by the user has
\* made exactly two calls: terminate, then unregister, both of the instance
\* named in the record.
C5_TerminateThenUnregister ==
    (last.command = "destroy" /\ last.prior = "record" /\ "interrupt" \notin last.events)
        => last.calls = << <<"wsl", "--terminate", NameOf(last.cwd)>>,
                           <<"wsl", "--unregister", NameOf(last.cwd)>> >>

\* C6: an init whose import has returned and which the user does not
\* interrupt runs the whole command list of a distribution, in order,
\* whichever commands fail, then writes the record and exits with 0.
C6_ProvisioningBestEffort ==
    (/\ last.command = "init"
     /\ Len(Imports(last.calls)) = 1
     /\ "import_failed" \notin last.events
     /\ last.ctl # "kbd")
        => /\ ExecCommands(last.calls) \in {ConfigCommands[d] : d \in Distros}
           /\ last.ctl = "ret"
           /\ last.exit = 0
           /\ last.written
           /\ config[last.cwd].kind = "record"

\* C6 witness: the first and the third command failed, all were run and the
\* record was written.
C6_Witness ==
    /\ last.command = "init"
    /\ last.warned = {1, 3}
    /\ Len(ExecCommands(last.calls)) = NumCommands
    /\ last.written

Constructed == {s \in Slots : mgr[s] # NoMgr}

\* C7 as claimed: two managers of different absolute paths have different
\* instance names (and two of the same path and basename the same name).
C7_NamesDistinct ==
    \A s, t \in Constructed :
        /\ (mgr[s].env.abs_path = mgr[t].env.abs_path
              /\ mgr[s].env.project_name = mgr[t].env.project_name)
              => mgr[s].env.instance_name = mgr[t].env.instance_name
        /\ mgr[s].env.abs_path # mgr[t].env.abs_path
              => mgr[s].env.instance_name # mgr[t].env.instance_name

\* C7 amended: the name is a function of basename and absolute path, and two
\* managers have the same name exactly when they have the same basename and
\* their absolute paths have the same first 8 hex digits of MD5; paths that
\* differ can share them (C:\work\47204\app and C:\work\67439\app do).
C7_NamesDistinctUpToHash ==
    \A s, t \in Constructed :
        (mgr[s].env.instance_name = mgr[t].env.instance_name)
            <=> /\ mgr[s].env.project_name = mgr[t].env.project_name
                /\ Md5Hex8[mgr[s].env.abs_path] = Md5Hex8[mgr[t].env.abs_path]

\* C7 witness: two projects with the same basename at different paths, with
\* different names.
C7_Witness ==
    /\ Constructed = Slots
    /\ mgr["a"].env.abs_path # mgr["b"].env.abs_path
    /\ mgr["a"].env.project_name = mgr["b"].env.project_name
    /\ mgr["a"].env.instance_name # mgr["b"].env.instance_name

\* C8: no process changes a cache entry that exists, and an archive is
\* fetched over HTTP only by init and only when it has no cache entry.
C8_CacheNeverInvalidated ==
    [][/\ \A file \in Files : cache[file] # "none" => cache'[file] = cache[file]
       /\ \A i \in DOMAIN last'.calls :
             IsGet(last'.calls[i])
                => /\ last'.command = "init"
                   /\ cache[last'.calls[i][2]] = "none"]_vars

\* C8 witness: an init imported a cached archive without fetching it.
C8_Witness ==
    /\ last.command = "init"
    /\ Len(Gets(last.calls)) = 0
    /\ Len(Imports(last.calls)) = 1
    /\ cache[last.calls[Len(last.calls)][4]] # "none"
    /\ IsImport(last.calls[Len(last.calls)])

\* C9: a process in which an import failed, a download failed, an external
\* call timed out, the config was unreadable or the user pressed Ctrl-C ends
\* with exit code 1, and the call it failed in (its last one) was made once.
C9_ErrorsExitWithOne ==
    (last.events \cap {"import_failed", "download_failed", "timeout",
                       "bad_config", "interrupt"} # {})
        => /\ last.exit = 1
           /\ \A i \in 1..(Len(last.calls) - 1) :
                 \/ last.calls[i] # last.calls[Len(last.calls)]
                 \/ last.calls[i] = <<"wsl", "--status">>

\* C10: a config file appears only through an init whose instance creation
\* has returned; an init that ends because WSL is missing, the download
\* failed or the import failed writes no config file; activate, destroy and
\* status in a project without config file make no external call.
C10_ConfigOnlyAfterCreation ==
    [][/\ \A p \in Projects :
             (config[p] = NoConfig /\ config'[p] # NoConfig)
                => last'.command = "init" /\ last'.cwd = p /\ last'.created
       /\ (/\ last'.command = "init"
           /\ last'.events \cap {"not_installed", "download_failed",
                                 "import_failed"} # {})
             => config' = config /\ ~last'.written
       /\ (/\ last'.command \in {"activate", "destroy", "status"}
           /\ config[last'.cwd] = NoConfig)
             => last'.calls = <<>>]_vars

\* C10 witness: status reports "Not initialized", without a call, in a
\* project whose init ended before the import (its .lenv directory exists,
\* no instance directory does).
C10_Witness ==
    /\ last.command = "status"
    /\ last.out = "Not initialized"
    /\ last.calls = <<>>
    /\ configDir[last.cwd]
    /\ NameOf(last.cwd) \notin installDirs

====
